---- MODULE Spec2Model ----
(***************************************************************************)
(* Home Plan Modeler (src/App.tsx): the undo/redo history store            *)
(* (useHistory), the view transform, grid snapping and the pointer-driven  *)
(* interaction state machine of the App component.                         *)
(*                                                                         *)
(* Every React event handler is one atomic action: it reads the state of   *)
(* the latest render and all its set-state calls are applied together.     *)
(* Pointer coordinates are canvas-relative client pixels (rect.left =      *)
(* rect.top = 0).  World coordinates are exact rationals [n, d].           *)
(***************************************************************************)
EXTENDS Integers, Sequences, FiniteSets, TLC

(* ------------------------------ bounds --------------------------------- *)
\* longest history the model lets an append produce
MaxHist == 3
\* number of pointer-down events in one run
MaxGestures == 2
\* number of pointer-down events in one scenario run
MaxScenarioGestures == 1
\* number of wheel ticks in one run
MaxTicks == 3
\* number of wheel ticks in one selection run
MaxSelectTicks == 1

(* ------------------------- program constants --------------------------- *)
GRID_SIZE == 10

ROOM_COLORS ==
  << "#DBEAFE", "#BFDBFE", "#93C5FD", "#A7F3D0", "#6EE7B7", "#34D399",
     "#C7D2FE", "#A5B4FC", "#818CF8", "#DDD6FE", "#C4B5FD", "#A78BFA",
     "#E9D5FF", "#D8B4FE", "#C084FC", "#FDE68A", "#FCD34D", "#FBBF24",
     "#FED7AA", "#FDBA74", "#FB923C", "#FECACA", "#FCA5A5", "#F87171",
     "#FBCFE8", "#F9A8D4", "#F472B6", "#E5E7EB", "#D1D5DB", "#9CA3AF" >>

\* the null selection / an absent targetId (falsy, like null and undefined)
NoId == ""
\* ids crypto.randomUUID() can return: pairwise distinct fresh strings
UUIDs == {"uuid-1", "uuid-2", "uuid-3", "uuid-4", "uuid-5"}

ResizeHandles == {"top-left", "top-right", "bottom-left", "bottom-right"}

(* ------------------------------ inputs --------------------------------- *)
\* pointer positions of the events, <<clientX, clientY>>
Pts == { <<45, 45>>, <<347, 246>> }
\* the points of the scenarios: two on the empty canvas, one on the living room
ScenarioPts == { <<10, 10>>, <<45, 45>>, <<60, 60>> }
\* e.button: 0 primary, 1 middle, 2 secondary
Buttons == {0, 1, 2}

(* --------------------------- exact numbers ----------------------------- *)
Abs(a) == IF a < 0 THEN -a ELSE a
Min(a, b) == IF a <= b THEN a ELSE b
Max(a, b) == IF a >= b THEN a ELSE b

RECURSIVE GCD(_, _)
GCD(a, b) == IF b = 0 THEN a ELSE GCD(b, a % b)

\* the rational n/d in lowest terms with a positive denominator
Rat(n, d) ==
  LET s == IF d < 0 THEN -1 ELSE 1
      g == GCD(Abs(n), Abs(d))
  IN  [n |-> (s * n) \div g, d |-> (s * d) \div g]
I(k) == [n |-> k, d |-> 1]
\* sums over the least common denominator, which keeps the intermediate integers small
LCM(a, b) == (a \div GCD(a, b)) * b
RAdd(a, b) ==
  LET l == LCM(a.d, b.d) IN Rat(a.n * (l \div a.d) + b.n * (l \div b.d), l)
RSub(a, b) ==
  LET l == LCM(a.d, b.d) IN Rat(a.n * (l \div a.d) - b.n * (l \div b.d), l)
\* products with the common factors taken out first, which keeps the intermediate
\* integers small
RMul(a, b) ==
  LET g == GCD(Abs(a.n), b.d)
      h == GCD(Abs(b.n), a.d)
  IN  Rat((a.n \div g) * (b.n \div h), (a.d \div h) * (b.d \div g))
RDiv(a, b) == IF b = I(1) THEN a ELSE RMul(a, [n |-> b.d, d |-> b.n])
RLe(a, b) ==
  LET l == LCM(a.d, b.d) IN a.n * (l \div a.d) <= b.n * (l \div b.d)
RMin(a, b) == IF RLe(a, b) THEN a ELSE b
RMax(a, b) == IF RLe(b, a) THEN a ELSE b

\* Math.round, had it been Math.floor
MathFloor(a) == a.n \div a.d

\* Math.round: the nearest integer, halves rounded up
MathRound(a) == (2 * a.n + a.d) \div (2 * a.d)

\* snapToGrid, had it rounded to whole units and left the grid out
snapToUnit(value) == MathRound(value)

snapToGrid(value) == MathRound(RDiv(value, I(GRID_SIZE))) * GRID_SIZE

(* ------------------------------- state --------------------------------- *)
VARIABLES
  history,          \* useHistory: the snapshots, each a sequence of rooms
  index,            \* useHistory: 0-based position of the current snapshot
  selectedRoomId,
  mode,             \* "select" | "draw"
  actionState,
  viewTransform,    \* [scale, x, y], rationals
  isPanning,
  panStartRef,      \* <<clientX, clientY>>
  drawingPreview,   \* <<>> (null) or <<[start, end]>>
  gest,             \* observer: the pointer gesture in progress or just ended
  nDown             \* observer: pointer-down events so far

vars == << history, index, selectedRoomId, mode, actionState, viewTransform,
           isPanning, panStartRef, drawingPreview, gest, nDown >>

initialRooms ==
  << [id |-> "living-room-1", name |-> "Living Room", x |-> 50, y |-> 50,
      width |-> 300, height |-> 200, color |-> ROOM_COLORS[1], zIndex |-> 0,
      features |-> <<>>, locked |-> FALSE],
     [id |-> "kitchen-1", name |-> "Kitchen", x |-> 350, y |-> 50,
      width |-> 150, height |-> 150, color |-> ROOM_COLORS[2], zIndex |-> 1,
      features |-> <<>>, locked |-> FALSE] >>

ActionNone ==
  [type |-> "none", startPoint |-> <<>>, moveOffset |-> <<>>, targetId |-> NoId,
   isDragging |-> FALSE, handle |-> "none"]

\* the observer before the first event
GestIdle ==
  [phase |-> "idle", on |-> "none", tool |-> "none", button |-> 0, target |-> NoId,
   locked |-> FALSE, handle |-> "none", moves |-> 0, hist0 |-> <<>>, index0 |-> 0,
   down |-> <<>>, up |-> <<>>, ticks |-> 0, fields |-> {}]

\* no gesture under observation; ticks counts the wheel ticks so far
GestNone == [GestIdle EXCEPT !.ticks = gest.ticks]

(* --------------------------- history store ----------------------------- *)
\* history is a TLA+ sequence (positions 1..Len) read through the code's 0-based
\* index: the code's history[i] is history[i + 1] here.
At(h, i) == h[i + 1]

\* the current snapshot, history[index]
rooms == At(history, index)

\* setState, had the append set the index to the new length
setStateIndexAtLength(h, i, newState, overwrite) ==
  IF overwrite
    THEN [history |-> [h EXCEPT ![i + 1] = newState], index |-> i]
    ELSE LET newHistory == Append(SubSeq(h, 1, i + 1), newState)
         IN  [history |-> newHistory, index |-> Len(newHistory)]

\* setState, had the append kept the redoable future (push without slice)
setStateKeepsFuture(h, i, newState, overwrite) ==
  IF overwrite
    THEN [history |-> [h EXCEPT ![i + 1] = newState], index |-> i]
    ELSE LET newHistory == Append(h, newState)
         IN  [history |-> newHistory, index |-> Len(newHistory) - 1]

\* setState, had the append sliced one entry short (slice(0, index))
setStateDropsCurrent(h, i, newState, overwrite) ==
  IF overwrite
    THEN [history |-> [h EXCEPT ![i + 1] = newState], index |-> i]
    ELSE LET newHistory == Append(SubSeq(h, 1, i), newState)
         IN  [history |-> newHistory, index |-> Len(newHistory) - 1]

\* setState, had the overwrite rebuilt the history up to the current entry only
setStateOverwriteCuts(h, i, newState, overwrite) ==
  IF overwrite
    THEN [history |-> Append(SubSeq(h, 1, i), newState), index |-> i]
    ELSE LET newHistory == Append(SubSeq(h, 1, i + 1), newState)
         IN  [history |-> newHistory, index |-> Len(newHistory) - 1]

setState(h, i, newState, overwrite) ==
  IF overwrite
    THEN [history |-> [h EXCEPT ![i + 1] = newState], index |-> i]
    ELSE LET newHistory == Append(SubSeq(h, 1, i + 1), newState)
         IN  [history |-> newHistory, index |-> Len(newHistory) - 1]

\* undo, had its guard been index >= 0
undoBelowZero(h, i) == IF i >= 0 THEN [history |-> h, index |-> i - 1] ELSE [history |-> h, index |-> i]
\* redo, had its guard been index < history.length - 2
redoStopsEarly(h, i) == IF i < Len(h) - 2 THEN [history |-> h, index |-> i + 1] ELSE [history |-> h, index |-> i]

undo(h, i) == IF i > 0 THEN [history |-> h, index |-> i - 1] ELSE [history |-> h, index |-> i]
redo(h, i) == IF i < Len(h) - 1 THEN [history |-> h, index |-> i + 1] ELSE [history |-> h, index |-> i]
canUndo(h, i) == i > 0
canRedo(h, i) == i < Len(h) - 1

\* an append may run only while the result stays within the model's bound
CanAppend == index + 2 <= MaxHist

(* --------------------------- view transform ---------------------------- *)
getMouseWorldPos(p) ==
  [x |-> RDiv(RSub(I(p[1]), viewTransform.x), viewTransform.scale),
   y |-> RDiv(RSub(I(p[2]), viewTransform.y), viewTransform.scale)]

(* ------------------------------ hit test ------------------------------- *)
\* the rendering layer: which room's div a pointer-down at world point pos lands on
Contains(r, pos) ==
  /\ RLe(I(r.x), pos.x) /\ RLe(pos.x, I(r.x + r.width))
  /\ RLe(I(r.y), pos.y) /\ RLe(pos.y, I(r.y + r.height))

\* position in the room list of the topmost room under pos, 0 when there is none
HitRoom(rs, pos) ==
  LET under == {i \in 1..Len(rs) : Contains(rs[i], pos)}
  IN  IF under = {} THEN 0
      ELSE CHOOSE i \in under : \A j \in under :
             \/ rs[j].zIndex < rs[i].zIndex
             \/ (rs[j].zIndex = rs[i].zIndex /\ j <= i)

RoomById(rs, id) ==
  LET at == {i \in 1..Len(rs) : rs[i].id = id}
  IN  IF at = {} THEN 0 ELSE CHOOSE i \in at : \A j \in at : i <= j

(* --------------------------- gesture observer -------------------------- *)
Idle == actionState.type = "none" /\ ~isPanning

\* The observer records what the user did, not what the handlers made of it: a
\* press from the idle editor (on the canvas, a room or a handle; with which button,
\* under which tool; whether the room was locked), the history as it was then, the
\* pointer-moves that follow and the release.  Any other event ends the observation.
GestStart(on, target, locked, h, button, down) ==
  IF Idle
    THEN [phase |-> "active", on |-> on, tool |-> mode, button |-> button,
          target |-> target, locked |-> locked, handle |-> h,
          moves |-> 0, hist0 |-> history, index0 |-> index,
          down |-> down, up |-> <<>>, ticks |-> gest.ticks, fields |-> {}]
    ELSE GestNone
\* moves counts the pointer-moves of the gesture: 0, 1, or 2 for two or more
GestMove == IF gest.phase = "active" THEN [gest EXCEPT !.moves = Min(@ + 1, 2)] ELSE GestNone
GestUp(p) ==
  IF gest.phase = "active"
    THEN [gest EXCEPT !.phase = "done", !.up = <<getMouseWorldPos(p)>>]
    ELSE GestNone
GestUndo == IF gest.phase = "done" THEN [gest EXCEPT !.phase = "undone"] ELSE GestNone
GestRedo == IF gest.phase = "undone" THEN [gest EXCEPT !.phase = "redone"] ELSE GestNone

(* ---------------------------- pointer-down ----------------------------- *)
\* the canvas handler, had a press on the canvas left the selection alone
HandleMouseDownKeepsSelection(p, button) ==
  IF button = 1
    THEN /\ isPanning' = TRUE
         /\ panStartRef' = p
         /\ UNCHANGED << actionState, drawingPreview, selectedRoomId >>
    ELSE LET pos == getMouseWorldPos(p) IN
         IF mode = "draw"
           THEN LET startPoint == [x |-> snapToGrid(pos.x), y |-> snapToGrid(pos.y)] IN
                /\ actionState' = [ActionNone EXCEPT !.type = "drawing", !.startPoint = <<startPoint>>]
                /\ drawingPreview' = << [start |-> startPoint, end |-> startPoint] >>
                /\ UNCHANGED << isPanning, panStartRef, selectedRoomId >>
           ELSE /\ IF button = 0
                     THEN isPanning' = TRUE /\ panStartRef' = p
                     ELSE UNCHANGED << isPanning, panStartRef >>
                /\ UNCHANGED << actionState, drawingPreview, selectedRoomId >>

\* handleMouseDown, the canvas handler: what it sets, for a pointer-down at p
HandleMouseDown(p, button) ==
  IF button = 1
    THEN /\ isPanning' = TRUE
         /\ panStartRef' = p
         /\ UNCHANGED << actionState, drawingPreview, selectedRoomId >>
    ELSE LET pos == getMouseWorldPos(p) IN
         IF mode = "draw"
           THEN LET startPoint == [x |-> snapToGrid(pos.x), y |-> snapToGrid(pos.y)] IN
                /\ actionState' = [ActionNone EXCEPT !.type = "drawing", !.startPoint = <<startPoint>>]
                /\ drawingPreview' = << [start |-> startPoint, end |-> startPoint] >>
                /\ selectedRoomId' = NoId
                /\ UNCHANGED << isPanning, panStartRef >>
           ELSE /\ selectedRoomId' = NoId
                /\ IF button = 0
                     THEN isPanning' = TRUE /\ panStartRef' = p
                     ELSE UNCHANGED << isPanning, panStartRef >>
                /\ UNCHANGED << actionState, drawingPreview >>

\* a pointer-down on the empty canvas
MouseDown(p, button) ==
  /\ HitRoom(rooms, getMouseWorldPos(p)) = 0
  /\ HandleMouseDown(p, button)
  /\ gest' = GestStart("canvas", NoId, FALSE, "none", button, <<getMouseWorldPos(p)>>)
  /\ nDown' = nDown + 1
  /\ UNCHANGED << history, index, mode, viewTransform >>

\* handleRoomMouseDown's early return, had it left locked rooms out
RoomIgnoresPointerDrawOnly(room) == mode = "draw"

\* handleRoomMouseDown's early return, which leaves the event to the canvas
RoomIgnoresPointer(room) == mode = "draw" \/ room.locked

\* a pointer-down on a room's div: handleRoomMouseDown, and handleMouseDown when the
\* event is left to bubble
RoomMouseDown(p, button) ==
  LET pos == getMouseWorldPos(p)
      hit == HitRoom(rooms, pos)
      room == rooms[hit]
  IN      /\ hit # 0
      /\ nDown' = nDown + 1
      /\ UNCHANGED << history, index, mode, viewTransform >>
      /\ gest' = GestStart("room", room.id, room.locked, "none", button, <<pos>>)
      /\ IF RoomIgnoresPointer(room)
           THEN HandleMouseDown(p, button)
           ELSE IF button = 0
                  THEN /\ selectedRoomId' = room.id
                       /\ actionState' =
                            [ActionNone EXCEPT !.type = "moving", !.targetId = room.id,
                               !.isDragging = FALSE,
                               !.moveOffset = << [x |-> RSub(pos.x, I(room.x)),
                                                  y |-> RSub(pos.y, I(room.y))] >>]
                       /\ UNCHANGED << isPanning, panStartRef, drawingPreview >>
                  ELSE UNCHANGED << selectedRoomId, actionState, isPanning,
                                    panStartRef, drawingPreview >>

\* a pointer-down on one of the four handles, which are rendered for the selected
\* room while it is unlocked: handleResizeStart
ResizeStart(handle, button) ==
  LET sel == RoomById(rooms, selectedRoomId)
      room == rooms[sel]
  IN      /\ sel # 0
      /\ ~room.locked
      /\ nDown' = nDown + 1
      /\ UNCHANGED << history, index, mode, viewTransform, selectedRoomId, isPanning,
                      panStartRef, drawingPreview >>
      /\ gest' = GestStart("handle", room.id, room.locked, handle, button, <<>>)
      /\ IF mode # "select" \/ button # 0 \/ room.locked
           THEN UNCHANGED actionState
           ELSE actionState' =
                  [ActionNone EXCEPT !.type = "resizing", !.targetId = room.id,
                     !.isDragging = FALSE, !.handle = handle]

(* ---------------------------- pointer-move ----------------------------- *)
\* the moving updater, had it put the room's corner at the pointer
MoveRoomsNoOffset(prevRooms, pos) ==
  [i \in 1..Len(prevRooms) |->
     IF prevRooms[i].id = actionState.targetId
       THEN [prevRooms[i] EXCEPT !.x = snapToGrid(pos.x), !.y = snapToGrid(pos.y)]
       ELSE prevRooms[i]]

\* the room list a pointer-move at world point pos writes while moving
MoveRooms(prevRooms, pos) ==
  [i \in 1..Len(prevRooms) |->
     IF prevRooms[i].id = actionState.targetId
       THEN [prevRooms[i] EXCEPT
               !.x = snapToGrid(RSub(pos.x, actionState.moveOffset[1].x)),
               !.y = snapToGrid(RSub(pos.y, actionState.moveOffset[1].y))]
       ELSE prevRooms[i]]

\* the resize rule, had it set the dragged edges without the grid-unit floor
ResizeRoomNoMinimum(r, handle, snappedPos) ==
  LET right == r.x + r.width
      bottom == r.y + r.height
      geo ==
        CASE handle = "top-left" ->
               [x |-> snappedPos.x, y |-> snappedPos.y,
                width |-> right - snappedPos.x, height |-> bottom - snappedPos.y]
          [] handle = "top-right" ->
               [x |-> r.x, y |-> snappedPos.y,
                width |-> snappedPos.x - r.x, height |-> bottom - snappedPos.y]
          [] handle = "bottom-left" ->
               [x |-> snappedPos.x, y |-> r.y,
                width |-> right - snappedPos.x, height |-> snappedPos.y - r.y]
          [] handle = "bottom-right" ->
               [x |-> r.x, y |-> r.y,
                width |-> snappedPos.x - r.x, height |-> snappedPos.y - r.y]
          [] OTHER -> [x |-> r.x, y |-> r.y, width |-> r.width, height |-> r.height]
  IN  [r EXCEPT !.x = MathRound(I(geo.x)), !.y = MathRound(I(geo.y)),
                !.width = MathRound(I(geo.width)), !.height = MathRound(I(geo.height))]

\* the resize rule, had the top-left case moved the corner and kept the old size
ResizeRoomKeepsSize(r, handle, snappedPos) ==
  LET right == r.x + r.width
      bottom == r.y + r.height
      geo ==
        CASE handle = "top-left" ->
               [x |-> Min(snappedPos.x, right - GRID_SIZE),
                y |-> Min(snappedPos.y, bottom - GRID_SIZE),
                width |-> r.width, height |-> r.height]
          [] handle = "top-right" ->
               LET y == Min(snappedPos.y, bottom - GRID_SIZE)
               IN  [x |-> r.x, y |-> y,
                    width |-> Max(GRID_SIZE, snappedPos.x - r.x), height |-> bottom - y]
          [] handle = "bottom-left" ->
               LET x == Min(snappedPos.x, right - GRID_SIZE)
               IN  [x |-> x, y |-> r.y, width |-> right - x,
                    height |-> Max(GRID_SIZE, snappedPos.y - r.y)]
          [] handle = "bottom-right" ->
               [x |-> r.x, y |-> r.y,
                width |-> Max(GRID_SIZE, snappedPos.x - r.x),
                height |-> Max(GRID_SIZE, snappedPos.y - r.y)]
          [] OTHER -> [x |-> r.x, y |-> r.y, width |-> r.width, height |-> r.height]
  IN  [r EXCEPT !.x = MathRound(I(geo.x)), !.y = MathRound(I(geo.y)),
                !.width = MathRound(I(geo.width)), !.height = MathRound(I(geo.height))]

\* the resize rule: room r after a pointer-move at the snapped point snappedPos
ResizeRoom(r, handle, snappedPos) ==
  LET right == r.x + r.width
      bottom == r.y + r.height
      geo ==
        CASE handle = "top-left" ->
               LET x == Min(snappedPos.x, right - GRID_SIZE)
                   y == Min(snappedPos.y, bottom - GRID_SIZE)
               IN  [x |-> x, y |-> y, width |-> right - x, height |-> bottom - y]
          [] handle = "top-right" ->
               LET y == Min(snappedPos.y, bottom - GRID_SIZE)
               IN  [x |-> r.x, y |-> y,
                    width |-> Max(GRID_SIZE, snappedPos.x - r.x), height |-> bottom - y]
          [] handle = "bottom-left" ->
               LET x == Min(snappedPos.x, right - GRID_SIZE)
               IN  [x |-> x, y |-> r.y, width |-> right - x,
                    height |-> Max(GRID_SIZE, snappedPos.y - r.y)]
          [] handle = "bottom-right" ->
               [x |-> r.x, y |-> r.y,
                width |-> Max(GRID_SIZE, snappedPos.x - r.x),
                height |-> Max(GRID_SIZE, snappedPos.y - r.y)]
          [] OTHER -> [x |-> r.x, y |-> r.y, width |-> r.width, height |-> r.height]
  IN  [r EXCEPT !.x = MathRound(I(geo.x)), !.y = MathRound(I(geo.y)),
                !.width = MathRound(I(geo.width)), !.height = MathRound(I(geo.height))]

ResizeRooms(prevRooms, pos) ==
  LET snappedPos == [x |-> snapToGrid(pos.x), y |-> snapToGrid(pos.y)]
  IN  [i \in 1..Len(prevRooms) |->
         IF prevRooms[i].id # actionState.targetId
           THEN prevRooms[i]
           ELSE ResizeRoom(prevRooms[i], actionState.handle, snappedPos)]

\* handleMouseMove.  In the idle editor it returns at once and changes nothing: that
\* event is a stuttering step, which the observer does not count.
MouseMove(p) ==
  LET pos == getMouseWorldPos(p) IN
  /\ ~Idle
  /\ gest' = GestMove
  /\ UNCHANGED << selectedRoomId, mode, isPanning, nDown >>
  /\ IF isPanning
       THEN /\ viewTransform' =
                 [viewTransform EXCEPT
                    !.x = RAdd(@, I(p[1] - panStartRef[1])),
                    !.y = RAdd(@, I(p[2] - panStartRef[2]))]
            /\ panStartRef' = p
            /\ UNCHANGED << history, index, actionState, drawingPreview >>
       ELSE
         /\ UNCHANGED << viewTransform, panStartRef >>
         /\ IF actionState.type = "none"
              THEN UNCHANGED << history, index, actionState, drawingPreview >>
            ELSE IF /\ actionState.type = "moving" /\ actionState.targetId # NoId
                    /\ actionState.moveOffset # <<>>
              THEN LET w == setState(history, index, MoveRooms(rooms, pos), TRUE) IN
                   /\ actionState' = [actionState EXCEPT !.isDragging = TRUE]
                   /\ history' = w.history
                   /\ index' = w.index
                   /\ UNCHANGED drawingPreview
            ELSE IF actionState.type = "drawing"
              THEN LET snappedEnd == [x |-> snapToGrid(pos.x), y |-> snapToGrid(pos.y)] IN
                   /\ drawingPreview' =
                        IF drawingPreview # <<>>
                          THEN << [drawingPreview[1] EXCEPT !.end = snappedEnd] >>
                          ELSE <<>>
                   /\ UNCHANGED << history, index, actionState >>
            ELSE IF /\ actionState.type = "resizing" /\ actionState.targetId # NoId
                    /\ actionState.handle # "none"
              THEN LET w == setState(history, index, ResizeRooms(rooms, pos), TRUE) IN
                   /\ actionState' = [actionState EXCEPT !.isDragging = TRUE]
                   /\ history' = w.history
                   /\ index' = w.index
                   /\ UNCHANGED drawingPreview
            ELSE UNCHANGED << history, index, actionState, drawingPreview >>

(* ----------------------------- pointer-up ------------------------------ *)
\* the ids of the rooms of a room list and of their features
IdsOf(rs) ==
  {rs[i].id : i \in 1..Len(rs)}
    \cup UNION { {rs[i].features[j].id : j \in 1..Len(rs[i].features)} : i \in 1..Len(rs) }

\* crypto.randomUUID(): an id no room, feature, selection or drag target carries
UsedIds ==
  {selectedRoomId, actionState.targetId}
    \cup UNION { IdsOf(history[k]) : k \in 1..Len(history) }
    \cup (IF gest.hist0 = <<>> THEN {}
          ELSE UNION { IdsOf(gest.hist0[k]) : k \in 1..Len(gest.hist0) })
randomUUID == CHOOSE u \in UUIDs : u \notin UsedIds

RECURSIVE MaxZIndex(_, _)
MaxZIndex(rs, k) == IF k = 0 THEN -1
                    ELSE IF k = 1 THEN rs[1].zIndex
                    ELSE Max(MaxZIndex(rs, k - 1), rs[k].zIndex)

\* the proposed room, had its zIndex been the number of rooms
NewRoomZByCount(rs, startPoint, endPoint) ==
  LET snappedEnd == [x |-> snapToGrid(endPoint.x), y |-> snapToGrid(endPoint.y)]
  IN  [id |-> randomUUID,
       name |-> "Room " \o ToString(Len(rs) + 1),
       x |-> Min(startPoint.x, snappedEnd.x),
       y |-> Min(startPoint.y, snappedEnd.y),
       width |-> Abs(startPoint.x - snappedEnd.x),
       height |-> Abs(startPoint.y - snappedEnd.y),
       color |-> ROOM_COLORS[(Len(rs) % Len(ROOM_COLORS)) + 1],
       zIndex |-> Len(rs),
       features |-> <<>>,
       locked |-> FALSE]

\* the room a draw gesture from startPoint ending at world point endPoint proposes
NewRoom(rs, startPoint, endPoint) ==
  LET snappedEnd == [x |-> snapToGrid(endPoint.x), y |-> snapToGrid(endPoint.y)]
      maxZ == IF Len(rs) > 0 THEN MaxZIndex(rs, Len(rs)) ELSE -1
  IN  [id |-> randomUUID,
       name |-> "Room " \o ToString(Len(rs) + 1),
       x |-> Min(startPoint.x, snappedEnd.x),
       y |-> Min(startPoint.y, snappedEnd.y),
       width |-> Abs(startPoint.x - snappedEnd.x),
       height |-> Abs(startPoint.y - snappedEnd.y),
       color |-> ROOM_COLORS[(Len(rs) % Len(ROOM_COLORS)) + 1],
       zIndex |-> maxZ + 1,
       features |-> <<>>,
       locked |-> FALSE]

DrawCommits(newRoom) == newRoom.width >= GRID_SIZE /\ newRoom.height >= GRID_SIZE

\* handleMouseUp, had it left the tool as it was at the end of a draw
MouseUpKeepsTool(p) ==
  LET dragged == actionState.type \in {"moving", "resizing"} /\ actionState.isDragging
      drawing == actionState.type = "drawing" /\ actionState.startPoint # <<>>
      newRoom == NewRoom(rooms, actionState.startPoint[1], getMouseWorldPos(p))
      commit == drawing /\ DrawCommits(newRoom)
      w == IF dragged THEN setState(history, index, rooms, FALSE)
           ELSE IF commit THEN setState(history, index, Append(rooms, newRoom), FALSE)
           ELSE [history |-> history, index |-> index]
  IN  /\ ~Idle
      /\ (dragged \/ commit) => CanAppend
      /\ commit => \E u \in UUIDs : u \notin UsedIds
      /\ isPanning' = FALSE
      /\ history' = w.history
      /\ index' = w.index
      /\ selectedRoomId' = IF commit THEN newRoom.id ELSE selectedRoomId
      /\ drawingPreview' = IF drawing THEN <<>> ELSE drawingPreview
      /\ actionState' = ActionNone
      /\ gest' = GestUp(p)
      /\ UNCHANGED << mode, viewTransform, panStartRef, nDown >>

\* handleMouseUp, had it committed a move or resize whether or not the pointer moved
MouseUpCommitsUndragged(p) ==
  LET dragged == actionState.type \in {"moving", "resizing"}
      drawing == actionState.type = "drawing" /\ actionState.startPoint # <<>>
      newRoom == NewRoom(rooms, actionState.startPoint[1], getMouseWorldPos(p))
      commit == drawing /\ DrawCommits(newRoom)
      w == IF dragged THEN setState(history, index, rooms, FALSE)
           ELSE IF commit THEN setState(history, index, Append(rooms, newRoom), FALSE)
           ELSE [history |-> history, index |-> index]
  IN  /\ ~Idle
      /\ (dragged \/ commit) => CanAppend
      /\ commit => \E u \in UUIDs : u \notin UsedIds
      /\ isPanning' = FALSE
      /\ history' = w.history
      /\ index' = w.index
      /\ selectedRoomId' = IF commit THEN newRoom.id ELSE selectedRoomId
      /\ drawingPreview' = IF drawing THEN <<>> ELSE drawingPreview
      /\ mode' = IF drawing THEN "select" ELSE mode
      /\ actionState' = ActionNone
      /\ gest' = GestUp(p)
      /\ UNCHANGED << viewTransform, panStartRef, nDown >>

\* handleMouseUp, bound to both onMouseUp and onMouseLeave.  In the idle editor it
\* sets what is already set: a stuttering step.
MouseUp(p) ==
  LET dragged == actionState.type \in {"moving", "resizing"} /\ actionState.isDragging
      drawing == actionState.type = "drawing" /\ actionState.startPoint # <<>>
      newRoom == NewRoom(rooms, actionState.startPoint[1], getMouseWorldPos(p))
      commit == drawing /\ DrawCommits(newRoom)
      w == IF dragged THEN setState(history, index, rooms, FALSE)
           ELSE IF commit THEN setState(history, index, Append(rooms, newRoom), FALSE)
           ELSE [history |-> history, index |-> index]
  IN  /\ ~Idle
      /\ (dragged \/ commit) => CanAppend
      /\ commit => \E u \in UUIDs : u \notin UsedIds
      /\ isPanning' = FALSE
      /\ history' = w.history
      /\ index' = w.index
      /\ selectedRoomId' = IF commit THEN newRoom.id ELSE selectedRoomId
      /\ drawingPreview' = IF drawing THEN <<>> ELSE drawingPreview
      /\ mode' = IF drawing THEN "select" ELSE mode
      /\ actionState' = ActionNone
      /\ gest' = GestUp(p)
      /\ UNCHANGED << viewTransform, panStartRef, nDown >>

\* a pointer-leave handler that only ends a pan
MouseLeaveStopsPanOnly(p) ==
  /\ ~Idle
  /\ isPanning' = FALSE
  /\ gest' = GestUp(p)
  /\ UNCHANGED << history, index, selectedRoomId, mode, actionState, viewTransform,
                  panStartRef, drawingPreview, nDown >>

\* the canvas's onMouseLeave, bound to handleMouseUp
MouseLeave(p) == MouseUp(p)

(* ------------------------- toolbar and inspector ----------------------- *)
\* The buttons are pressed with the pointer: it has left the canvas by then, and
\* onMouseLeave has run handleMouseUp, so a button press finds the editor idle.
\* the Undo button, enabled while canUndo
Undo ==
  LET u == undo(history, index) IN
  /\ Idle
  /\ canUndo(history, index)
  /\ history' = u.history
  /\ index' = u.index
  /\ gest' = GestUndo
  /\ UNCHANGED << selectedRoomId, mode, actionState, viewTransform, isPanning,
                  panStartRef, drawingPreview, nDown >>

\* the Redo button, enabled while canRedo
Redo ==
  LET r == redo(history, index) IN
  /\ Idle
  /\ canRedo(history, index)
  /\ history' = r.history
  /\ index' = r.index
  /\ gest' = GestRedo
  /\ UNCHANGED << selectedRoomId, mode, actionState, viewTransform, isPanning,
                  panStartRef, drawingPreview, nDown >>

\* the two tool buttons; pressing the button of the current tool changes nothing
SetMode(m) ==
  /\ Idle
  /\ m # mode
  /\ mode' = m
  /\ gest' = GestNone
  /\ UNCHANGED << history, index, selectedRoomId, actionState, viewTransform,
                  isPanning, panStartRef, drawingPreview, nDown >>

\* { ...r, ...newValues }
Merge(r, newValues) ==
  [f \in DOMAIN r |-> IF f \in DOMAIN newValues THEN newValues[f] ELSE r[f]]

\* handleUpdateRoom's updater, had it merged the values into every room
UpdateRoomsAll(prev, id, newValues) ==
  [i \in 1..Len(prev) |-> Merge(prev[i], newValues)]

\* handleUpdateRoom's updater
UpdateRooms(prev, id, newValues) ==
  [i \in 1..Len(prev) |-> IF prev[i].id = id THEN Merge(prev[i], newValues) ELSE prev[i]]

\* handleDeleteRoom's updater: prev.filter(r => r.id !== id)
DeleteRooms(prev, id) == SelectSeq(prev, LAMBDA r : r.id # id)

\* the inspector's lock button: handleToggleLock, then handleUpdateRoom
ToggleLock ==
  LET sel == RoomById(rooms, selectedRoomId)
      selectedRoom == rooms[sel]
      w == setState(history, index,
                    UpdateRooms(rooms, selectedRoom.id, [locked |-> ~selectedRoom.locked]),
                    FALSE)
  IN  /\ Idle
      /\ sel # 0
      /\ CanAppend
      /\ history' = w.history
      /\ index' = w.index
      /\ gest' = GestNone
      /\ UNCHANGED << selectedRoomId, mode, actionState, viewTransform, isPanning,
                      panStartRef, drawingPreview, nDown >>

\* the inspector's Delete Room button: handleDeleteRoom
DeleteRoom ==
  LET sel == RoomById(rooms, selectedRoomId)
      w == setState(history, index, DeleteRooms(rooms, rooms[sel].id), FALSE)
  IN  /\ Idle
      /\ sel # 0
      /\ CanAppend
      /\ history' = w.history
      /\ index' = w.index
      /\ selectedRoomId' = NoId
      /\ gest' = GestNone
      /\ UNCHANGED << mode, actionState, viewTransform, isPanning, panStartRef,
                      drawingPreview, nDown >>

(* ------------------------- the inspector's inputs ----------------------- *)
\* The text of an input element is a sequence of characters.
Digits == {"0", "1", "2", "3", "4", "5", "6", "7", "8", "9"}
DigitOf(c) == CHOOSE d \in 0..9 : ToString(d) = c

\* how many digits value holds from position k on
RECURSIVE DigitRun(_, _)
DigitRun(value, k) ==
  IF k <= Len(value) /\ value[k] \in Digits THEN 1 + DigitRun(value, k + 1) ELSE 0

\* the number the digits value[k .. k + n - 1] spell
RECURSIVE DigitsValue(_, _, _)
DigitsValue(value, k, n) ==
  IF n = 0 THEN 0 ELSE DigitsValue(value, k, n - 1) * 10 + DigitOf(value[k + n - 1])

RECURSIVE Pow10(_)
Pow10(n) == IF n = 0 THEN 1 ELSE 10 * Pow10(n - 1)

\* parseInt(value, 10): an optional sign, then the leading digits; <<>> is NaN
parseInt(value) ==
  LET signed == Len(value) > 0 /\ value[1] \in {"-", "+"}
      from == IF signed THEN 2 ELSE 1
      n == DigitRun(value, from)
      magnitude == DigitsValue(value, from, n)
  IN  IF n = 0 THEN <<>>
      ELSE IF signed /\ value[1] = "-" THEN << -magnitude >> ELSE << magnitude >>

\* parseFloat(value) on digits with an optional fraction; <<>> is NaN
parseFloat(value) ==
  LET signed == Len(value) > 0 /\ value[1] \in {"-", "+"}
      from == IF signed THEN 2 ELSE 1
      n == DigitRun(value, from)
      dot == from + n <= Len(value) /\ value[from + n] = "."
      m == IF dot THEN DigitRun(value, from + n + 1) ELSE 0
      whole == DigitsValue(value, from, n)
      frac == DigitsValue(value, from + n + 1, m)
      magnitude == Rat(whole * Pow10(m) + frac, Pow10(m))
  IN  IF n + m = 0 THEN <<>>
      ELSE IF signed /\ value[1] = "-" THEN << RSub(I(0), magnitude) >>
      ELSE << magnitude >>

\* the string an input's characters spell
RECURSIVE TextOf(_)
TextOf(value) == IF value = <<>> THEN "" ELSE value[1] \o TextOf(Tail(value))

(* ------------------------------ inspector ------------------------------ *)
\* what the user types into the name, width, height and zIndex inputs
InputTexts == { <<>>, <<"1", "2", "0">>, <<"-", "3">> }
\* the colour buttons pressed, two of ROOM_COLORS
Palette == { ROOM_COLORS[1], ROOM_COLORS[3] }
FeatureTypes == {"door", "window"}
Walls == {"top", "bottom", "left", "right"}
\* the walls picked in a feature's wall menu
WallsPicked == {"top", "left"}
\* what the user types into a feature's width input
WidthTexts == { <<>>, <<"8", "0">> }
\* values of a feature's position slider
PositionTexts == { <<"0", ".", "2", "5">> }

\* handleUpdateRoom
HandleUpdateRoom(id, newValues) ==
  LET w == setState(history, index, UpdateRooms(rooms, id, newValues), FALSE)
  IN  /\ history' = w.history
      /\ index' = w.index

\* an edit made in the inspector panel, which shows the selected room.  The observer
\* notes the call: the id and the names of the fields handed to handleUpdateRoom.
InspectorEdit(newValues) ==
  LET sel == RoomById(rooms, selectedRoomId)
  IN  /\ Idle
      /\ sel # 0
      /\ CanAppend
      /\ HandleUpdateRoom(rooms[sel].id, newValues)
      /\ gest' = [GestNone EXCEPT !.phase = "edited", !.target = rooms[sel].id,
                                  !.fields = DOMAIN newValues]
      /\ UNCHANGED << selectedRoomId, mode, actionState, viewTransform, isPanning,
                      panStartRef, drawingPreview, nDown >>

\* handleInputChange's processedValue
ProcessedValue(name, value) ==
  IF name \in {"width", "height", "zIndex"}
    THEN LET parsed == IF value = <<>> THEN <<0>> ELSE parseInt(value)
         IN  IF parsed = <<>> THEN 0 ELSE IF parsed[1] < 0 THEN 0 ELSE parsed[1]
    ELSE TextOf(value)

\* typing into one of the inspector's inputs: handleInputChange.  The width, height
\* and zIndex inputs are disabled while the selected room is locked.
InputChange(name, value) ==
  LET sel == RoomById(rooms, selectedRoomId)
  IN  /\ sel # 0
      /\ name \in {"width", "height", "zIndex"} => ~rooms[sel].locked
      /\ InspectorEdit(name :> ProcessedValue(name, value))

\* one of the colour buttons
PickColor(color) == InspectorEdit([color |-> color])

\* the Add Door and Add Window buttons: handleAddFeature
AddFeature(type) ==
  LET sel == RoomById(rooms, selectedRoomId)
      newFeature == [id |-> randomUUID, type |-> type, wall |-> "top",
                     position |-> Rat(1, 2),
                     width |-> IF type = "door" THEN 40 ELSE 60]
  IN  /\ sel # 0
      /\ \E u \in UUIDs : u \notin UsedIds
      /\ InspectorEdit([features |-> Append(rooms[sel].features, newFeature)])

\* FeatureEditor's handleFeatureChange: the feature as changed
FeatureChanged(feature, key, value) ==
  IF key = "width"
    THEN LET parsed == parseInt(value)
         IN  [feature EXCEPT !.width = IF parsed = <<>> THEN 0 ELSE parsed[1]]
  ELSE IF key = "position"
    THEN LET parsed == parseFloat(value)
         IN  [feature EXCEPT !.position = IF parsed = <<>> THEN I(0) ELSE parsed[1]]
  ELSE [feature EXCEPT !.wall = value]

\* a change in the editor of the j-th feature, whose fieldset is disabled while the
\* room is locked: handleFeatureChange, then handleUpdateFeature
FeatureChange(j, key, value) ==
  LET sel == RoomById(rooms, selectedRoomId)
      features == rooms[sel].features
      updatedFeature == FeatureChanged(features[j], key, value)
      updatedFeatures == [k \in 1..Len(features) |->
                            IF features[k].id = updatedFeature.id
                              THEN updatedFeature ELSE features[k]]
  IN  /\ sel # 0
      /\ j \in 1..Len(features)
      /\ ~rooms[sel].locked
      /\ InspectorEdit([features |-> updatedFeatures])

\* the delete button of the j-th feature's editor: handleDeleteFeature
DeleteFeature(j) ==
  LET sel == RoomById(rooms, selectedRoomId)
      features == rooms[sel].features
      updatedFeatures == SelectSeq(features, LAMBDA f : f.id # features[j].id)
  IN  /\ sel # 0
      /\ j \in 1..Len(features)
      /\ InspectorEdit([features |-> updatedFeatures])

(* ------------------------------- wheel --------------------------------- *)
zoomFactor == Rat(11, 10)
MinScale == Rat(1, 5)
MaxScale == I(5)
\* e.deltaY of a wheel tick, away from the user and towards the user
WheelDeltas == {-100, 100}

\* newScale of handleWheel: one zoomFactor in or out
NewScale(deltaY) ==
  IF deltaY < 0 THEN RMul(viewTransform.scale, zoomFactor)
  ELSE RDiv(viewTransform.scale, zoomFactor)

\* the scale, had the clamp left out the upper limit
ClampedScaleLowOnly(deltaY) == RMax(MinScale, NewScale(deltaY))

\* the scale handleWheel settles on
ClampedScale(deltaY) == RMax(MinScale, RMin(NewScale(deltaY), MaxScale))

\* the translation, had it been computed with the unclamped scale
ZoomOffsetUnclamped(p, deltaY) ==
  LET newScale == NewScale(deltaY)
      worldX == RDiv(RSub(I(p[1]), viewTransform.x), viewTransform.scale)
      worldY == RDiv(RSub(I(p[2]), viewTransform.y), viewTransform.scale)
  IN  [x |-> RSub(I(p[1]), RMul(worldX, newScale)),
       y |-> RSub(I(p[2]), RMul(worldY, newScale))]

\* the translation handleWheel sets for a tick at p
ZoomOffset(p, deltaY) ==
  LET clampedScale == ClampedScale(deltaY)
      worldX == RDiv(RSub(I(p[1]), viewTransform.x), viewTransform.scale)
      worldY == RDiv(RSub(I(p[2]), viewTransform.y), viewTransform.scale)
  IN  [x |-> RSub(I(p[1]), RMul(worldX, clampedScale)),
       y |-> RSub(I(p[2]), RMul(worldY, clampedScale))]

\* handleWheel, had each tick been recorded as a history step
WheelAppends(p, deltaY) ==
  LET offset == ZoomOffset(p, deltaY)
      w == setState(history, index, rooms, FALSE)
  IN  /\ viewTransform' = [scale |-> ClampedScale(deltaY), x |-> offset.x, y |-> offset.y]
      /\ CanAppend
      /\ history' = w.history
      /\ index' = w.index
      /\ gest' = [GestNone EXCEPT
                    !.phase = IF ClampedScale(deltaY) = NewScale(deltaY)
                                THEN "wheel" ELSE "clamped",
                    !.ticks = gest.ticks + 1,
                    !.down = << getMouseWorldPos(p) >>]
      /\ UNCHANGED << selectedRoomId, mode, actionState, isPanning,
                      panStartRef, drawingPreview, nDown >>

\* handleWheel, for a wheel tick at p.  The observer counts the ticks and
\* notes whether the last one met the clamp.
Wheel(p, deltaY) ==
  LET offset == ZoomOffset(p, deltaY)
  IN  /\ viewTransform' = [scale |-> ClampedScale(deltaY), x |-> offset.x, y |-> offset.y]
      /\ gest' = [GestNone EXCEPT
                    !.phase = IF ClampedScale(deltaY) = NewScale(deltaY)
                                THEN "wheel" ELSE "clamped",
                    !.ticks = gest.ticks + 1,
                    !.down = << getMouseWorldPos(p) >>]
      /\ UNCHANGED << history, index, selectedRoomId, mode, actionState, isPanning,
                      panStartRef, drawingPreview, nDown >>

(* ------------------------------ load plan ------------------------------ *)
\* A file's text: whether JSON.parse accepts it, whether the value is an array, and
\* the array's items.  An item says whether it is an object, and holds its fields;
\* the numbers of x, y, width, height and of a feature's width are rationals.
FileRoom(id, x, width) ==
  [object |-> TRUE,
   fields |-> [id |-> id, name |-> "Den", x |-> x, y |-> I(20), width |-> width,
               height |-> I(40), color |-> ROOM_COLORS[2], zIndex |-> 0]]

Files ==
  { \* not JSON
    [json |-> FALSE, array |-> FALSE, items |-> <<>>],
    \* a JSON object
    [json |-> TRUE, array |-> FALSE, items |-> <<>>],
    \* the second record has no zIndex
    [json |-> TRUE, array |-> TRUE,
     items |-> << FileRoom("den-1", I(10), I(40)),
                  [object |-> TRUE,
                   fields |-> [id |-> "den-2", name |-> "Den", x |-> I(10), y |-> I(20),
                               width |-> I(40), height |-> I(40),
                               color |-> ROOM_COLORS[2]]] >>],
    \* the second item is a number
    [json |-> TRUE, array |-> TRUE,
     items |-> << FileRoom("den-1", I(10), I(40)), [object |-> FALSE, fields |-> <<>>] >>],
    \* one room, locked, with a feature, at x = 12.5
    [json |-> TRUE, array |-> TRUE,
     items |-> << [object |-> TRUE,
                   fields |-> [id |-> "den-1", name |-> "Den", x |-> Rat(25, 2),
                               y |-> I(20), width |-> I(40), height |-> I(40),
                               color |-> ROOM_COLORS[2], zIndex |-> 0, locked |-> TRUE,
                               features |-> << [id |-> "door-1", type |-> "door",
                                                wall |-> "top", position |-> Rat(1, 2),
                                                width |-> Rat(81, 2)] >>]] >>],
    \* one room 3 wide
    [json |-> TRUE, array |-> TRUE, items |-> << FileRoom("den-1", I(10), I(3)) >>],
    \* one room with a window at position 1.5
    [json |-> TRUE, array |-> TRUE,
     items |-> << [object |-> TRUE,
                   fields |-> [id |-> "den-1", name |-> "Den", x |-> I(10),
                               y |-> I(20), width |-> I(40), height |-> I(40),
                               color |-> ROOM_COLORS[2], zIndex |-> 0,
                               features |-> << [id |-> "window-1", type |-> "window",
                                                wall |-> "left", position |-> Rat(3, 2),
                                                width |-> I(60)] >>]] >>],
    \* two rooms under one id
    [json |-> TRUE, array |-> TRUE,
     items |-> << FileRoom("den-1", I(10), I(40)), FileRoom("den-1", I(100), I(40)) >>] }

RequiredFields == {"id", "name", "x", "y", "width", "height", "color", "zIndex"}

\* the test of handleFileChange, had it left zIndex out
FileAcceptedWithoutZIndex(file) ==
  /\ file.json
  /\ file.array
  /\ \A i \in 1..Len(file.items) :
       /\ file.items[i].object
       /\ (RequiredFields \ {"zIndex"}) \subseteq DOMAIN file.items[i].fields

\* the test of handleFileChange: an array whose every item has the required fields.
\* ('id' in r throws on an item that is no object, which rejects the file as well.)
FileAccepted(file) ==
  /\ file.json
  /\ file.array
  /\ \A i \in 1..Len(file.items) :
       file.items[i].object /\ RequiredFields \subseteq DOMAIN file.items[i].fields

\* one record of the file, as sanitizedRooms holds it: { ...r, x: ..., features: ... }
SanitizedRoom(r) ==
  [f \in DOMAIN r \cup {"x", "y", "width", "height", "locked", "features"} |->
     IF f \in {"x", "y", "width", "height"} THEN MathRound(r[f])
     ELSE IF f = "locked" THEN (IF "locked" \in DOMAIN r THEN r.locked ELSE FALSE)
     ELSE IF f = "features"
       THEN (IF "features" \in DOMAIN r
               THEN [j \in 1..Len(r.features) |->
                       [r.features[j] EXCEPT !.width = MathRound(@)]]
               ELSE <<>>)
     ELSE r[f]]

SanitizedRooms(file) ==
  [i \in 1..Len(file.items) |-> SanitizedRoom(file.items[i].fields)]

\* reader.onload of handleFileChange, for a file chosen in the Load Plan dialog.
\* The observer notes whether the file was taken.
LoadFile(file) ==
  LET w == setState(history, index, SanitizedRooms(file), FALSE)
  IN  /\ Idle
      /\ gest' = [GestNone EXCEPT
                    !.phase = IF FileAccepted(file) THEN "loaded" ELSE "rejected"]
      /\ UNCHANGED << mode, actionState, viewTransform, isPanning, panStartRef,
                      drawingPreview, nDown >>
      /\ IF FileAccepted(file)
           THEN /\ CanAppend
                /\ history' = w.history
                /\ index' = w.index
                /\ selectedRoomId' = NoId
           ELSE UNCHANGED << history, index, selectedRoomId >>

Init ==
  /\ history = << initialRooms >>
  /\ index = 0
  /\ selectedRoomId = NoId
  /\ mode = "select"
  /\ actionState = ActionNone
  /\ viewTransform = [scale |-> I(1), x |-> I(0), y |-> I(0)]
  /\ isPanning = FALSE
  /\ panStartRef = <<0, 0>>
  /\ drawingPreview = <<>>
  /\ gest = GestIdle
  /\ nDown = 0

\* the events of a session whose pointer visits the points P and presses at most G times
NextOn(P, G) ==
  \/ \E p \in P, b \in Buttons : nDown < G /\ MouseDown(p, b)
  \/ \E p \in P, b \in Buttons : nDown < G /\ RoomMouseDown(p, b)
  \/ \E h \in ResizeHandles, b \in Buttons : nDown < G /\ ResizeStart(h, b)
  \/ \E p \in P : MouseMove(p)
  \/ \E p \in P : MouseUp(p)
  \/ Undo
  \/ Redo
  \/ \E m \in {"select", "draw"} : SetMode(m)
  \/ ToggleLock
  \/ DeleteRoom

Next == NextOn(Pts, MaxGestures)

Spec == Init /\ [][Next]_vars

\* a session at the inspector panel: while no room is selected a primary press on a
\* room selects it, and the panel edits the selected room
EditPts == { <<60, 60>> }

InspectorNext ==
  \/ \E p \in EditPts :
       nDown < MaxScenarioGestures /\ selectedRoomId = NoId /\ RoomMouseDown(p, 0)
  \/ \E p \in EditPts : MouseUp(p)
  \/ Undo
  \/ Redo
  \/ ToggleLock
  \/ DeleteRoom
  \/ \E name \in {"name", "width", "height", "zIndex"}, value \in InputTexts :
       InputChange(name, value)
  \/ \E color \in Palette : PickColor(color)
  \/ \E type \in FeatureTypes : AddFeature(type)
  \/ \E j \in 1..2, value \in WidthTexts : FeatureChange(j, "width", value)
  \/ \E j \in 1..2, value \in PositionTexts : FeatureChange(j, "position", value)
  \/ \E j \in 1..2, wall \in WallsPicked : FeatureChange(j, "wall", wall)
  \/ \E j \in 1..2 : DeleteFeature(j)

InspectorSpec == Init /\ [][InspectorNext]_vars

\* a session at the Load Plan dialog, with rooms selected, locked, deleted and
\* recoloured in between
LoadNext ==
  \/ \E p \in EditPts, b \in Buttons : nDown < MaxScenarioGestures /\ RoomMouseDown(p, b)
  \/ \E p \in EditPts : MouseMove(p)
  \/ \E p \in EditPts : MouseUp(p)
  \/ Undo
  \/ Redo
  \/ ToggleLock
  \/ DeleteRoom
  \/ \E color \in Palette : PickColor(color)
  \/ \E file \in Files : LoadFile(file)

LoadSpec == Init /\ [][LoadNext]_vars

\* the pointer's events over the canvas, leaving it included, with the tool buttons
\* and the lock toggle between gestures
ReleaseNext ==
  \/ \E p \in Pts, b \in Buttons : nDown < MaxGestures /\ MouseDown(p, b)
  \/ \E p \in Pts, b \in Buttons : nDown < MaxGestures /\ RoomMouseDown(p, b)
  \/ \E h \in ResizeHandles, b \in Buttons : nDown < MaxGestures /\ ResizeStart(h, b)
  \/ \E p \in Pts : MouseMove(p)
  \/ \E p \in Pts : MouseUp(p)
  \/ \E p \in Pts : MouseLeave(p)
  \/ \E m \in {"select", "draw"} : SetMode(m)
  \/ ToggleLock

ReleaseSpec == Init /\ [][ReleaseNext]_vars

\* the drag scenario of the specification's section 8: the pointer goes from (60,60)
\* on room A by (23,17) to (83,77), by way of (70,65)
DragPts == { <<60, 60>>, <<70, 65>>, <<83, 77>> }

DragNext ==
  \/ \E p \in DragPts, b \in Buttons : nDown < MaxScenarioGestures /\ RoomMouseDown(p, b)
  \/ \E p \in DragPts : MouseMove(p)
  \/ \E p \in DragPts : MouseUp(p)
  \/ Undo
  \/ Redo
  \/ \E m \in {"select", "draw"} : SetMode(m)
  \/ ToggleLock
  \/ DeleteRoom

DragSpec == Init /\ [][DragNext]_vars

\* a run of wheel ticks over the canvas.  It begins at scale 1, or at scale 5 or 1/5,
\* where 17 ticks in or out at the canvas's corner (0,0) have taken the view.
ZoomPts == { <<100, 100>>, <<347, 246>> }

ZoomInit ==
  /\ history = << initialRooms >>
  /\ index = 0
  /\ selectedRoomId = NoId
  /\ mode = "select"
  /\ actionState = ActionNone
  /\ viewTransform \in { [scale |-> s, x |-> I(0), y |-> I(0)] : s \in {I(1), MinScale, MaxScale} }
  /\ isPanning = FALSE
  /\ panStartRef = <<0, 0>>
  /\ drawingPreview = <<>>
  /\ gest = GestIdle
  /\ nDown = 0

ZoomNext ==
  \E p \in ZoomPts, deltaY \in WheelDeltas : gest.ticks < MaxTicks /\ Wheel(p, deltaY)

ZoomSpec == ZoomInit /\ [][ZoomNext]_vars

\* a session of clicks on the two rooms under the select tool, with undo, redo and
\* the inspector's lock and delete buttons in between
ClickPts == { <<60, 60>>, <<400, 100>> }

ClickNext ==
  \/ \E p \in ClickPts, b \in Buttons : nDown < MaxGestures /\ RoomMouseDown(p, b)
  \/ \E p \in ClickPts : MouseMove(p)
  \/ \E p \in ClickPts : MouseUp(p)
  \/ Undo
  \/ Redo
  \/ ToggleLock
  \/ DeleteRoom

ClickSpec == Init /\ [][ClickNext]_vars

\* a resize session: the living room is selected by a click, given a width or a
\* height in the inspector, and dragged by a handle to points inside it, above and
\* left of it, and below and right of it
ResizePts == { <<60, 60>>, <<5, 5>>, <<400, 300>> }
\* what is typed into the width and height inputs before the resize
SizeTexts == { <<>>, <<"3">> }

ResizeNext ==
  \/ \E p \in EditPts : nDown < MaxGestures /\ selectedRoomId = NoId /\ RoomMouseDown(p, 0)
  \/ \E h \in ResizeHandles : nDown < MaxGestures /\ ResizeStart(h, 0)
  \/ \E p \in ResizePts : MouseMove(p)
  \/ \E p \in ResizePts : MouseUp(p)
  \/ \E name \in {"width", "height"}, value \in SizeTexts : InputChange(name, value)

ResizeSpec == Init /\ [][ResizeNext]_vars

\* the draw scenario of the specification's section 8: from (10,10) to (110,110)
DrawPts == { <<10, 10>>, <<110, 110>> }

\* plans loaded before drawing: one with no room, one whose first room is on top
DrawFiles ==
  { [json |-> TRUE, array |-> TRUE, items |-> <<>>],
    [json |-> TRUE, array |-> TRUE,
     items |-> << [object |-> TRUE,
                   fields |-> [id |-> "den-1", name |-> "Den", x |-> I(200), y |-> I(200),
                               width |-> I(40), height |-> I(40),
                               color |-> ROOM_COLORS[2], zIndex |-> 5]],
                  [object |-> TRUE,
                   fields |-> [id |-> "den-2", name |-> "Den", x |-> I(300), y |-> I(200),
                               width |-> I(40), height |-> I(40),
                               color |-> ROOM_COLORS[2], zIndex |-> 2]] >>] }

\* a session that draws one room, on the initial plan or on a loaded one
DrawNext ==
  \/ \E p \in DrawPts, b \in Buttons : nDown < MaxScenarioGestures /\ MouseDown(p, b)
  \/ \E p \in DrawPts, b \in Buttons : nDown < MaxScenarioGestures /\ RoomMouseDown(p, b)
  \/ \E p \in DrawPts : MouseMove(p)
  \/ \E p \in DrawPts : MouseUp(p)
  \/ Undo
  \/ Redo
  \/ \E m \in {"select", "draw"} : SetMode(m)
  \/ \E file \in DrawFiles : LoadFile(file)

DrawSpec == Init /\ [][DrawNext]_vars

\* a session that zooms, pans and edits: wheel ticks at any moment, also during a
\* gesture, presses of any button on the canvas and on the rooms, undo and redo.  It
\* begins as the zoom runs do.
ViewPts == { <<20, 20>>, <<347, 246>> }
\* where the pointer is when the wheel turns
ViewWheelPts == { <<347, 246>> }

ViewNext ==
  \/ \E p \in ViewWheelPts, deltaY \in WheelDeltas : gest.ticks < MaxTicks /\ Wheel(p, deltaY)
  \/ \E p \in ViewPts, b \in Buttons : nDown < MaxScenarioGestures /\ MouseDown(p, b)
  \/ \E p \in ViewPts, b \in Buttons : nDown < MaxScenarioGestures /\ RoomMouseDown(p, b)
  \/ \E p \in ViewPts : MouseMove(p)
  \/ \E p \in ViewPts : MouseUp(p)
  \/ Undo
  \/ Redo

ViewSpec == ZoomInit /\ [][ViewNext]_vars

\* a session about the selection: it begins with no room or the living room
\* selected (by an earlier click), and has one gesture of any kind, wheel ticks,
\* the toolbar and the Delete Room button
SelectInit ==
  /\ history = << initialRooms >>
  /\ index = 0
  /\ selectedRoomId \in {NoId, "living-room-1"}
  /\ mode = "select"
  /\ actionState = ActionNone
  /\ viewTransform = [scale |-> I(1), x |-> I(0), y |-> I(0)]
  /\ isPanning = FALSE
  /\ panStartRef = <<0, 0>>
  /\ drawingPreview = <<>>
  /\ gest = GestIdle
  /\ nDown = 0

\* e.deltaY of the wheel ticks of a selection run: away from the user
SelectWheelDeltas == {-100}

SelectNext ==
  \/ \E p \in ViewWheelPts, deltaY \in SelectWheelDeltas :
       gest.ticks < MaxSelectTicks /\ Wheel(p, deltaY)
  \/ \E p \in ViewPts, b \in Buttons : nDown < MaxScenarioGestures /\ MouseDown(p, b)
  \/ \E p \in ViewPts, b \in Buttons : nDown < MaxScenarioGestures /\ RoomMouseDown(p, b)
  \/ \E p \in ViewPts : MouseMove(p)
  \/ \E p \in ViewPts : MouseUp(p)
  \/ Undo
  \/ Redo
  \/ \E m \in {"select", "draw"} : SetMode(m)
  \/ DeleteRoom

SelectSpec == SelectInit /\ [][SelectNext]_vars

\* the scenarios of the specification's section 8, one press at a time
ScenarioNext ==
  \/ \E p \in ScenarioPts, b \in Buttons : nDown < MaxScenarioGestures /\ MouseDown(p, b)
  \/ \E p \in ScenarioPts, b \in Buttons : nDown < MaxScenarioGestures /\ RoomMouseDown(p, b)
  \/ \E p \in ScenarioPts : MouseMove(p)
  \/ \E p \in ScenarioPts : MouseUp(p)
  \/ Undo
  \/ Redo
  \/ \E m \in {"select", "draw"} : SetMode(m)
  \/ ToggleLock
  \/ DeleteRoom

ScenarioSpec == Init /\ [][ScenarioNext]_vars

(* ======================================================================= *)
(*                               the claims                                *)
(* ======================================================================= *)
\* the room list that was current when the observed gesture began
GestRooms0 == At(gest.hist0, gest.index0)
\* the observed gesture is a primary press on an unlocked room under the select tool
MoveDrag ==
  gest.on = "room" /\ gest.tool = "select" /\ gest.button = 0 /\ ~gest.locked
\* the observed gesture is a primary press on a handle under the select tool
ResizeDrag == gest.on = "handle" /\ gest.tool = "select" /\ gest.button = 0
\* ... followed by at least one pointer-move
Dragged == (MoveDrag \/ ResizeDrag) /\ gest.moves >= 1
\* snapshots a write is tried with
Snapshots == {<<>>, initialRooms} \cup {history[k] : k \in 1..Len(history)}

C2_DragAppendsOnce ==
  (gest.phase = "done" /\ Dragged) =>
     /\ Len(history) = gest.index0 + 2
     /\ index = gest.index0 + 1
C2_Witness ==
  /\ gest.phase = "done" /\ ResizeDrag /\ gest.moves >= 2
  /\ rooms # GestRooms0

\* C3: wherever undo is possible, undo() then redo() gives back the same history,
\* the same index and the same current room list.
C3_UndoRedoRoundTrip ==
  index > 0 =>
    LET u == undo(history, index)
        r == redo(u.history, u.index)
    IN  /\ u.index # index
        /\ r.history = history
        /\ r.index = index
        /\ At(r.history, r.index) = rooms
\* an undo and then a redo have just run, between two different room lists
C3_Witness ==
  /\ gest.phase = "redone"
  /\ index > 0
  /\ At(history, index - 1) # rooms

\* C4: an append write at index i keeps entries 0..i, drops every later entry, puts
\* the new snapshot at i + 1 and moves the index there, so canRedo is false after it.
C4_AppendTruncates ==
  \A s \in Snapshots :
    LET w == setState(history, index, s, FALSE) IN
    /\ Len(w.history) = index + 2
    /\ \A k \in 0..index : At(w.history, k) = At(history, k)
    /\ At(w.history, index + 1) = s
    /\ w.index = index + 1
    /\ ~canRedo(w.history, w.index)
\* an append has just discarded a redoable future
C4_Witness ==
  /\ gest.phase = "done"
  /\ gest.index0 < Len(gest.hist0) - 1
  /\ index = gest.index0 + 1
  /\ Len(history) = index + 1

\* C5: an overwrite write replaces the snapshot at the current index and nothing
\* else: same length, same index, every other entry as it was.
C5_OverwriteInPlace ==
  \A s \in Snapshots :
    LET w == setState(history, index, s, TRUE) IN
    /\ Len(w.history) = Len(history)
    /\ w.index = index
    /\ At(w.history, index) = s
    /\ \A k \in 0..(Len(history) - 1) : k # index => At(w.history, k) = At(history, k)
\* a drag is overwriting an entry that has entries before and after it
C5_Witness ==
  /\ gest.phase = "active" /\ Dragged
  /\ 0 < index /\ index < Len(history) - 1
  /\ rooms # GestRooms0

\* C6: undo() at index 0 and redo() at the last index change nothing; elsewhere undo
\* takes one from the index and redo adds one, the history untouched; and
\* canUndo = (index > 0), canRedo = (index < last).
C6_UndoRedoBounds ==
  LET u == undo(history, index)
      r == redo(history, index)
      last == Len(history) - 1
  IN  /\ u.history = history
      /\ r.history = history
      /\ u.index = (IF index = 0 THEN index ELSE index - 1)
      /\ r.index = (IF index = last THEN index ELSE index + 1)
      /\ canUndo(history, index) = (index > 0)
      /\ canRedo(history, index) = (index < last)
\* an undo has just brought the index to 0, with a redoable entry behind it
C6_Witness ==
  /\ gest.phase = "undone"
  /\ index = 0
  /\ Len(history) > 1

\* the observed gesture is a press that starts drawing: under the draw tool, not
\* with the middle button, on the canvas or on a room
DrawGesture ==
  gest.tool = "draw" /\ gest.button # 1 /\ gest.on \in {"canvas", "room"}
WorldPoint(x, y) == [x |-> I(x), y |-> I(y)]

\* C7: a completed draw gesture either appends a room whose width and height are
\* multiples of the grid unit and at least one grid unit, or leaves the history
\* sequence and the index as they were.
C7_DrawGridSizedOrNothing ==
  (gest.phase = "done" /\ DrawGesture) =>
     \/ history = gest.hist0 /\ index = gest.index0
     \/ /\ index = gest.index0 + 1
        /\ Len(history) = index + 1
        /\ SubSeq(history, 1, index) = SubSeq(gest.hist0, 1, index)
        /\ Len(rooms) = Len(GestRooms0) + 1
        /\ SubSeq(rooms, 1, Len(GestRooms0)) = GestRooms0
        /\ LET newRoom == rooms[Len(rooms)] IN
           /\ newRoom.width % GRID_SIZE = 0 /\ newRoom.width >= GRID_SIZE
           /\ newRoom.height % GRID_SIZE = 0 /\ newRoom.height >= GRID_SIZE
\* a draw gesture with pointer-moves has just committed a room
C7_Witness ==
  /\ gest.phase = "done" /\ DrawGesture /\ gest.moves >= 1
  /\ index = gest.index0 + 1

\* the scenario of C8: from the two initial rooms, a draw gesture pressed at world
\* (10,10) and released at world (45,45)
C8_Scenario ==
  /\ gest.phase = "done" /\ DrawGesture
  /\ GestRooms0 = initialRooms
  /\ gest.down = << WorldPoint(10, 10) >>
  /\ gest.up = << WorldPoint(45, 45) >>

\* C8 as stated: that gesture adds no room and leaves the history length unchanged.
C8_AddsNoRoom ==
  C8_Scenario => rooms = initialRooms /\ Len(history) = Len(gest.hist0)

\* C8 amended: that gesture adds one room, at (10,10) and 40 by 40 (45 snaps to 50),
\* as one appended history entry.
C8_AddsRoom40 ==
  C8_Scenario =>
     /\ index = gest.index0 + 1
     /\ Len(history) = gest.index0 + 2
     /\ Len(rooms) = 3
     /\ SubSeq(rooms, 1, 2) = initialRooms
     /\ rooms[3].x = 10 /\ rooms[3].y = 10
     /\ rooms[3].width = 40 /\ rooms[3].height = 40
C8_Witness == C8_Scenario /\ gest.moves >= 1 /\ selectedRoomId = rooms[Len(rooms)].id

\* C9: throughout a resize gesture the edges opposite the dragged handle stay where
\* they were at the press.
C9_OppositeEdgeFixed ==
  (ResizeDrag /\ gest.phase \in {"active", "done"}) =>
     LET i0 == RoomById(GestRooms0, gest.target)
         i == RoomById(rooms, gest.target)
         a == GestRooms0[i0]
         b == rooms[i]
     IN  /\ i0 # 0 /\ i # 0
         /\ gest.handle = "top-left" =>
              b.x + b.width = a.x + a.width /\ b.y + b.height = a.y + a.height
         /\ gest.handle = "top-right" =>
              b.x = a.x /\ b.y + b.height = a.y + a.height
         /\ gest.handle = "bottom-left" =>
              b.x + b.width = a.x + a.width /\ b.y = a.y
         /\ gest.handle = "bottom-right" =>
              b.x = a.x /\ b.y = a.y
\* a top-left resize has moved the corner, over two or more pointer-moves
C9_Witness ==
  /\ ResizeDrag /\ gest.phase = "active" /\ gest.moves >= 2
  /\ gest.handle = "top-left"
  /\ rooms[RoomById(rooms, gest.target)].x
       # GestRooms0[RoomById(GestRooms0, gest.target)].x

\* the observed gesture is a primary press on a locked room (or a handle of one)
\* under the select tool
LockedAttempt ==
  /\ gest.on \in {"room", "handle"} /\ gest.tool = "select" /\ gest.button = 0
  /\ gest.locked

\* C10: throughout a move or resize attempt on a locked room the editor is never
\* moving or resizing, and the history sequence and the index stay as they were.
C10_LockedRoomUntouched ==
  (LockedAttempt /\ gest.phase \in {"active", "done"}) =>
     /\ actionState.type \notin {"moving", "resizing"}
     /\ history = gest.hist0
     /\ index = gest.index0
\* such an attempt, with pointer-moves, has run to its release
C10_Witness ==
  LockedAttempt /\ gest.phase = "done" /\ gest.moves >= 1

(* ------------------------- C11: locked rooms ---------------------------- *)
\* the operations C11 lists: canvas pointer gestures and the inspector's edits, the
\* lock button excepted
C11_Operation ==
  \/ \E p \in EditPts : RoomMouseDown(p, 0)
  \/ \E p \in EditPts : MouseUp(p)
  \/ \E name \in {"name", "width", "height", "zIndex"}, value \in InputTexts :
       InputChange(name, value)
  \/ \E color \in Palette : PickColor(color)
  \/ \E type \in FeatureTypes : AddFeature(type)
  \/ \E j \in 1..2 : \/ \E value \in WidthTexts : FeatureChange(j, "width", value)
                     \/ \E value \in PositionTexts : FeatureChange(j, "position", value)
                     \/ \E wall \in WallsPicked : FeatureChange(j, "wall", wall)
                     \/ DeleteFeature(j)

Geometry(r) == << r.x, r.y, r.width, r.height, r.zIndex, r.features >>

\* C11: while a room is locked, no pointer gesture and no inspector edit other than
\* the unlock changes its x, y, width, height, zIndex or features.
C11_LockedRoomFrozen ==
  [][ C11_Operation =>
        \A i \in 1..Len(rooms) :
          rooms[i].locked =>
            /\ i <= Len(rooms')
            /\ Geometry(rooms'[i]) = Geometry(rooms[i]) ]_vars

(* ---------------------- C12: release and leave -------------------------- *)
\* what a release writes: nothing, or one snapshot appended after the current one
ReleaseWrote ==
  \/ history' = history /\ index' = index
  \/ /\ history' = Append(SubSeq(history, 1, index + 1), rooms')
     /\ index' = index + 1
     /\ actionState.type \in {"moving", "resizing"} => rooms' = rooms

\* a drag observed from its press: moved, then committed by one append; not moved,
\* then the history is as the press found it
DragSettled ==
  (gest.phase = "active" /\ (MoveDrag \/ ResizeDrag)) =>
     IF gest.moves >= 1
       THEN /\ index' = gest.index0 + 1
            /\ Len(history') = gest.index0 + 2
            /\ rooms' = rooms
       ELSE history' = gest.hist0 /\ index' = gest.index0

\* C12: from every interaction state, pointer-up and pointer-leave make the same
\* step, which ends idle (action type none, no pan, no drawing preview) with the
\* drag in progress committed by one append or not written.
C12_ReleaseEndsIdle ==
  [][ \A p \in Pts :
        /\ MouseLeave(p) <=> MouseUp(p)
        /\ (MouseUp(p) \/ MouseLeave(p)) =>
             /\ actionState'.type = "none"
             /\ ~isPanning'
             /\ drawingPreview' = <<>>
             /\ ReleaseWrote
             /\ DragSettled ]_vars

\* a release has committed a drag
C12_Witness ==
  /\ Idle
  /\ gest.phase = "done"
  /\ Dragged
  /\ index = gest.index0 + 1

(* ------------------------ C13: the move gesture ------------------------- *)
\* the target room of the observed gesture, as the press found it and as it is
TargetAt0 == GestRooms0[RoomById(GestRooms0, gest.target)]
TargetNext == rooms'[RoomById(rooms', gest.target)]

\* moveOffset, as the press fixed it: the pressed world point less the room's corner
C13_Offset ==
  [x |-> RSub(gest.down[1].x, I(TargetAt0.x)), y |-> RSub(gest.down[1].y, I(TargetAt0.y))]

\* the scenario: room A, at (50,50), pressed at (60,60), the view not panned
C13_Scenario ==
  /\ gest.target = "living-room-1"
  /\ TargetAt0.x = 50 /\ TargetAt0.y = 50
  /\ gest.down = << WorldPoint(60, 60) >>

\* C13: in a move gesture every pointer-move puts the target's top-left at
\* snap(worldPointer - moveOffset), moveOffset fixed at the press; dragging A from
\* (50,50) by (23,17) leaves it at (70,70), and the release adds exactly one history
\* entry after the one the drag began on.
C13_MoveFollowsPointer ==
  [][ \A p \in DragPts :
        /\ (gest.phase = "active" /\ MoveDrag /\ MouseMove(p)) =>
              /\ TargetNext.x = snapToGrid(RSub(getMouseWorldPos(p).x, C13_Offset.x))
              /\ TargetNext.y = snapToGrid(RSub(getMouseWorldPos(p).y, C13_Offset.y))
              /\ (C13_Scenario /\ getMouseWorldPos(p) = WorldPoint(83, 77)) =>
                    TargetNext.x = 70 /\ TargetNext.y = 70
        /\ (gest.phase = "active" /\ MoveDrag /\ gest.moves >= 1 /\ MouseUp(p)) =>
              /\ rooms' = rooms
              /\ index' = gest.index0 + 1
              /\ Len(history') = gest.index0 + 2 ]_vars

\* A was dragged from (50,50) by (23,17) in two or more moves, and released
C13_Witness ==
  /\ gest.phase = "done" /\ MoveDrag /\ C13_Scenario
  /\ gest.moves = 2
  /\ gest.up = << WorldPoint(83, 77) >>
  /\ rooms[RoomById(rooms, "living-room-1")].x = 70
  /\ rooms[RoomById(rooms, "living-room-1")].y = 70
  /\ index = gest.index0 + 1

(* --------------------------- C14: room sizes ---------------------------- *)
\* C14: every room of every history snapshot is at least one grid unit wide and one
\* grid unit high.
C14_SizesAtLeastGrid ==
  \A k \in 1..Len(history) : \A i \in 1..Len(history[k]) :
     /\ history[k][i].width \in Int /\ history[k][i].width >= GRID_SIZE
     /\ history[k][i].height \in Int /\ history[k][i].height >= GRID_SIZE

(* --------------------------- C15: bad files ----------------------------- *)
\* the files C15 is about: the content is no array, or some record lacks one of the
\* eight fields
C15_Invalid(file) ==
  \/ ~file.json
  \/ ~file.array
  \/ \E i \in 1..Len(file.items) :
        \E f \in {"id", "name", "x", "y", "width", "height", "color", "zIndex"} :
           ~file.items[i].object \/ f \notin DOMAIN file.items[i].fields

\* C15: loading such a file changes neither the history, nor the index (so nor the
\* current room list), nor the selection.
C15_BadFileRejected ==
  [][ \A file \in Files :
        (C15_Invalid(file) /\ LoadFile(file)) =>
           UNCHANGED << history, index, selectedRoomId >> ]_vars

\* a file was rejected while a room was selected and the history had grown
C15_Witness ==
  /\ gest.phase = "rejected"
  /\ selectedRoomId # NoId
  /\ index > 0

(* ----------------------------- C16: ids --------------------------------- *)
\* no two elements of the sequence s carry one id
UniqueIds(s) == \A i, j \in 1..Len(s) : s[i].id = s[j].id => i = j

\* C16: no two rooms of the current room list share an id, and no two features of
\* one room share an id.
C16_IdsUnique ==
  /\ UniqueIds(rooms)
  /\ \A i \in 1..Len(rooms) : UniqueIds(rooms[i].features)

(* ------------------------- C17: zoom to cursor -------------------------- *)
\* C17: a wheel tick at viewport point v leaves the world point under v where it
\* was, (v - t)/s = (v - t')/s' on both axes, also when the new scale was clamped at
\* 0.2 or 5; from scale 1 and translation 0 a tick in at (100,100) keeps world
\* (100,100) under (100,100).
C17_ZoomKeepsWorldPoint ==
  [][ \A p \in ZoomPts, deltaY \in WheelDeltas :
        Wheel(p, deltaY) =>
          /\ RDiv(RSub(I(p[1]), viewTransform'.x), viewTransform'.scale)
               = RDiv(RSub(I(p[1]), viewTransform.x), viewTransform.scale)
          /\ RDiv(RSub(I(p[2]), viewTransform'.y), viewTransform'.scale)
               = RDiv(RSub(I(p[2]), viewTransform.y), viewTransform.scale)
          /\ (viewTransform = [scale |-> I(1), x |-> I(0), y |-> I(0)]
                /\ p = <<100, 100>> /\ deltaY < 0) =>
               /\ viewTransform'.scale = Rat(11, 10)
               /\ getMouseWorldPos(p)' = WorldPoint(100, 100) ]_vars

\* the last tick was clamped at 5, in a view that earlier ticks had shifted
C17_Witness ==
  /\ gest.phase = "clamped"
  /\ gest.ticks >= 2
  /\ viewTransform.scale = MaxScale
  /\ viewTransform.x # I(0)

(* ------------------------ C18: one room edit ---------------------------- *)
\* what handleUpdateRoom(id, newValues) is to leave: one snapshot appended after the
\* current one, the room list as long as before, every room of another id as it
\* was, and the room of that id changed in the supplied fields at most
C18_Frame(id, fields) ==
  /\ index' = index + 1
  /\ history' = Append(SubSeq(history, 1, index + 1), rooms')
  /\ Len(rooms') = Len(rooms)
  /\ \A i \in 1..Len(rooms) :
       /\ DOMAIN rooms'[i] = DOMAIN rooms[i]
       /\ rooms'[i].id = rooms[i].id
       /\ rooms[i].id # id => rooms'[i] = rooms[i]
       /\ \A f \in DOMAIN rooms[i] \ fields : rooms'[i][f] = rooms[i][f]

\* C18: each handleUpdateRoom call appends exactly one snapshot, in which only the
\* room of the given id differs from the snapshot that was current, and only in the
\* fields supplied; the other rooms and their order are unchanged.
C18_EditTouchesOneRoom ==
  [][ /\ gest'.phase = "edited" => C18_Frame(gest'.target, gest'.fields)
      /\ ToggleLock => C18_Frame(selectedRoomId, {"locked"}) ]_vars

\* an inspector edit has changed the selected room and cut off a redoable snapshot
C18_Witness ==
  /\ gest.phase = "edited"
  /\ index = 1
  /\ Len(rooms) = 2
  /\ rooms # At(history, index - 1)
  /\ selectedRoomId = "living-room-1"
  /\ rooms[1].width = 120

(* ---------------------- C19: one interaction state ---------------------- *)
\* C19: at most one of panning, drawing, moving and resizing is active: while
\* isPanning is true the action type is none.
C19_OneInteractionState == isPanning => actionState.type = "none"

(* ------------------------- C20: entering a pan -------------------------- *)
\* a press at p lands on the empty canvas
OnEmptyCanvas(p) == HitRoom(rooms, getMouseWorldPos(p)) = 0

\* C20: from idle, a pointer-down enters panning exactly when it is a middle-button
\* down (under either tool, wherever the pointer is) or a primary-button down on the
\* empty canvas under the select tool.
C20_PanEntry ==
  [][ \A p \in Pts, b \in Buttons :
        (Idle /\ (MouseDown(p, b) \/ RoomMouseDown(p, b))) =>
           (isPanning' <=> (b = 1 \/ (b = 0 /\ mode = "select" /\ OnEmptyCanvas(p)))) ]_vars

(* ------------------------- C21: the drawn room -------------------------- *)
\* the observed draw gesture was committed: one snapshot more than at the press
DrawCommitted ==
  gest.phase = "done" /\ DrawGesture /\ index = gest.index0 + 1

\* the largest zIndex of the rooms rs, -1 when there are none
C21_MaxZ(rs) ==
  IF Len(rs) = 0 THEN -1
  ELSE CHOOSE z \in {rs[i].zIndex : i \in 1..Len(rs)} :
         \A i \in 1..Len(rs) : rs[i].zIndex <= z

\* C21: a committed draw appends one snapshot, the previous room list plus one new
\* room at the end: x, y the per-axis minimum of the snapped start and end, zIndex
\* the largest existing zIndex plus one (0 when there is no room), name
\* 'Room <count + 1>', color palette[count mod palette length], no features,
\* unlocked; on the two initial rooms a draw from (10,10) to (110,110) gives
\* x = 10, y = 10, width = 100, height = 100, zIndex = 2.
C21_DrawnRoom ==
  DrawCommitted =>
    LET count == Len(GestRooms0)
        newRoom == rooms[Len(rooms)]
        start == gest.down[1]
        end == gest.up[1]
    IN  /\ history = Append(SubSeq(gest.hist0, 1, gest.index0 + 1), rooms)
        /\ Len(rooms) = count + 1
        /\ SubSeq(rooms, 1, count) = GestRooms0
        /\ newRoom.x = Min(snapToGrid(start.x), snapToGrid(end.x))
        /\ newRoom.y = Min(snapToGrid(start.y), snapToGrid(end.y))
        /\ newRoom.zIndex = C21_MaxZ(GestRooms0) + 1
        /\ (count = 0 => newRoom.zIndex = 0)
        /\ newRoom.name = "Room " \o ToString(count + 1)
        /\ newRoom.color = ROOM_COLORS[(count % Len(ROOM_COLORS)) + 1]
        /\ newRoom.features = <<>>
        /\ newRoom.locked = FALSE
        /\ (GestRooms0 = initialRooms /\ start = WorldPoint(10, 10)
               /\ end = WorldPoint(110, 110)) =>
              /\ newRoom.x = 10 /\ newRoom.y = 10
              /\ newRoom.width = 100 /\ newRoom.height = 100
              /\ newRoom.zIndex = 2

\* a room was drawn on a loaded plan whose topmost room is not the last one
C21_Witness ==
  /\ DrawCommitted
  /\ Len(GestRooms0) = 2
  /\ GestRooms0[1].zIndex = 5
  /\ rooms[3].zIndex = 6

(* ------------------------ C22: resized sizes ---------------------------- *)
\* the room a resize in progress works on, after the step
C22_TargetNext == rooms'[RoomById(rooms', actionState.targetId)]

\* C22: after every pointer-move of a resize gesture, with any of the four handles,
\* wherever the pointer is and whatever size the target room had, the target room
\* is at least one grid unit wide and one grid unit high.
C22_ResizeKeepsGridUnit ==
  [][ \A p \in ResizePts :
        (actionState.type = "resizing" /\ ~isPanning /\ MouseMove(p)) =>
           /\ C22_TargetNext.width >= GRID_SIZE
           /\ C22_TargetNext.height >= GRID_SIZE ]_vars

\* a room narrower than the grid unit is being resized by its top-left handle, and
\* the pointer has passed the opposite corner
C22_Witness ==
  /\ ResizeDrag /\ gest.phase = "active" /\ gest.moves >= 1
  /\ gest.handle = "top-left"
  /\ TargetAt0.width < GRID_SIZE
  /\ rooms[RoomById(rooms, gest.target)].width = GRID_SIZE
  /\ rooms[RoomById(rooms, gest.target)].height = GRID_SIZE

(* -------------------------- C23: a simple click ------------------------- *)
\* a pointer-down at p is a primary press, from idle under the select tool, on an
\* unlocked room
C23_Press(p) ==
  LET hit == HitRoom(rooms, getMouseWorldPos(p))
  IN  /\ Idle /\ mode = "select"
      /\ hit # 0 /\ ~rooms[hit].locked
      /\ RoomMouseDown(p, 0)

\* C23: a primary pointer-down on an unlocked room under the select tool followed by
\* a pointer-up with no pointer-move in between writes nothing to the history: the
\* history sequence and the index are as before the press, and of the rest of the
\* state only the selection has changed, to the clicked room.
C23_ClickWritesNothing ==
  [][ \A p \in ClickPts :
        /\ C23_Press(p) =>
              /\ UNCHANGED << history, index, mode, viewTransform, isPanning,
                              drawingPreview >>
              /\ selectedRoomId' = rooms[HitRoom(rooms, getMouseWorldPos(p))].id
        /\ (gest.phase = "active" /\ MoveDrag /\ gest.moves = 0 /\ MouseUp(p)) =>
              /\ UNCHANGED << history, index, mode, viewTransform, isPanning,
                              drawingPreview, selectedRoomId >>
              /\ history' = gest.hist0
              /\ index' = gest.index0
              /\ actionState' = ActionNone ]_vars

\* a click has selected another room, in a history with a redoable snapshot
C23_Witness ==
  /\ gest.phase = "done" /\ MoveDrag /\ gest.moves = 0
  /\ selectedRoomId = gest.target
  /\ selectedRoomId = "kitchen-1"
  /\ index < Len(history) - 1

(* ---------------------- C24: loaded positions --------------------------- *)
\* C24: after a successful file load every wall feature of every loaded room has
\* its position within [0,1].
C24_LoadedPositionsInRange ==
  gest.phase = "loaded" =>
    \A i \in 1..Len(rooms) : \A j \in 1..Len(rooms[i].features) :
       /\ RLe(I(0), rooms[i].features[j].position)
       /\ RLe(rooms[i].features[j].position, I(1))

(* --------------------------- C25: the scale ----------------------------- *)
\* the scale s lies in [0.2, 5]
C25_InRange(s) == RLe(Rat(1, 5), s) /\ RLe(s, I(5))

\* the scale one wheel tick makes of s: s times 1.1 for a tick in (deltaY < 0), s
\* over 1.1 for a tick out, brought back into [0.2, 5]
C25_Ticked(s, deltaY) ==
  LET t == IF deltaY < 0 THEN RMul(s, Rat(11, 10)) ELSE RDiv(s, Rat(11, 10))
  IN  IF RLe(t, Rat(1, 5)) THEN Rat(1, 5) ELSE IF RLe(I(5), t) THEN I(5) ELSE t

\* C25: the view scale always lies in [0.2, 5]; each wheel tick (the steps that
\* add to the observer's tick count) multiplies (in) or divides (out) the scale by
\* 1.1 and clamps the result to that range; and no event other than a wheel tick
\* changes the scale.
C25_ScaleInRange ==
  /\ [] C25_InRange(viewTransform.scale)
  /\ [][ /\ (gest'.ticks # gest.ticks) =>
              \A p \in ViewWheelPts, deltaY \in WheelDeltas :
                 Wheel(p, deltaY) =>
                    viewTransform'.scale = C25_Ticked(viewTransform.scale, deltaY)
         /\ (viewTransform'.scale # viewTransform.scale) =>
                 \E p \in ViewWheelPts, deltaY \in WheelDeltas : Wheel(p, deltaY) ]_vars

\* a tick in at scale 5 has left the scale at 5, in a view that was panned and
\* zoomed before
C25_Witness ==
  /\ gest.phase = "clamped"
  /\ gest.ticks >= 2
  /\ nDown >= 1
  /\ viewTransform.scale = I(5)
  /\ isPanning

(* ---------------------- C26: the view and history ----------------------- *)
\* C26: panning and zooming are not part of history: a pointer-move handled while
\* panning and a wheel tick leave the history sequence, the index and so every room
\* as they were, and undo and redo leave the view transform as it was.
C26_ViewOutsideHistory ==
  [][ /\ isPanning =>
            \A p \in ViewPts : MouseMove(p) => UNCHANGED << history, index >>
      /\ (gest'.ticks # gest.ticks) =>
            \A p \in ViewWheelPts, deltaY \in WheelDeltas :
               Wheel(p, deltaY) => UNCHANGED << history, index >>
      /\ (Undo \/ Redo) => UNCHANGED viewTransform ]_vars

\* a pan is moving the zoomed view
C26_Witness ==
  /\ isPanning
  /\ gest.phase = "active" /\ gest.moves >= 1
  /\ gest.ticks >= 1
  /\ viewTransform.scale # I(1)
  /\ viewTransform.x # I(0)

(* ------------------------- C27: the selection --------------------------- *)
\* the room under a press at p, 0 when the press is on the empty canvas
C27_Hit(p) == HitRoom(rooms, getMouseWorldPos(p))

\* the rules of C27 that hold of every button: Delete Room clears the selection; a
\* committed draw selects the room it added; a primary press on an unlocked room
\* under the select tool selects that room; undo, redo, pointer-move and wheel leave
\* the selection as it was
C27_Rules ==
  /\ DeleteRoom => selectedRoomId' = NoId
  /\ (actionState.type = "drawing" /\ index' = index + 1) =>
        \A p \in ViewPts :
           MouseUp(p) =>
              /\ selectedRoomId' = rooms'[Len(rooms')].id
              /\ selectedRoomId' \notin {rooms[i].id : i \in 1..Len(rooms)}
  /\ (nDown' # nDown /\ mode = "select") =>
        \A p \in ViewPts :
           (C27_Hit(p) # 0 /\ ~rooms[C27_Hit(p)].locked /\ RoomMouseDown(p, 0)) =>
              selectedRoomId' = rooms[C27_Hit(p)].id
  /\ (selectedRoomId' # selectedRoomId) =>
        /\ ~Undo
        /\ ~Redo
        /\ \A p \in ViewPts : ~MouseMove(p)
        /\ \A p \in ViewWheelPts, deltaY \in WheelDeltas : ~Wheel(p, deltaY)

\* C27 as stated: the rules above, and a pointer-down on the empty canvas, with any
\* button, sets the selection to none.
C27_SelectionRules ==
  [][ /\ C27_Rules
      /\ (nDown' # nDown) =>
            \A p \in ViewPts, b \in Buttons :
               MouseDown(p, b) => selectedRoomId' = NoId ]_vars

\* C27 amended: the rules above, and a pointer-down on the empty canvas sets the
\* selection to none when the button is the primary or the secondary one, and
\* leaves it as it was when the button is the middle one.
C27_SelectionRulesButMiddle ==
  [][ /\ C27_Rules
      /\ (nDown' # nDown) =>
            \A p \in ViewPts, b \in Buttons :
               MouseDown(p, b) =>
                  selectedRoomId' = (IF b = 1 THEN selectedRoomId ELSE NoId) ]_vars

\* a secondary-button press on the empty canvas has cleared the selection the run
\* began with, after a wheel tick
C27_Witness ==
  /\ gest.phase = "active" /\ gest.on = "canvas" /\ gest.button = 2
  /\ gest.tool = "select"
  /\ gest.ticks >= 1
  /\ selectedRoomId = NoId
  /\ index = 0
  /\ nDown = 1

(* ------------------------ C28: a valid index ---------------------------- *)
\* C28: the history is never empty and the index is always a position in it,
\* 0 <= index <= length - 1, whatever the order of appends, overwrites, undos and
\* redos.
C28_IndexInHistory ==
  /\ Len(history) >= 1
  /\ index \in 0..(Len(history) - 1)

\* undos have gone back to the first of three or more snapshots
C28_Witness ==
  /\ Len(history) >= 3
  /\ index = 0
  /\ history[1] # history[2]

(* ---------------------- C29: a selected room exists --------------------- *)
\* C29: the selection is none or the id of a room of the current room list.
C29_SelectionInRooms ==
  selectedRoomId = NoId \/ RoomById(rooms, selectedRoomId) # 0

(* ------------------------ C30: the drawing preview ---------------------- *)
\* C30: a drawing preview exists exactly while the action type is drawing, and when
\* a drawing gesture ends, with a room committed or not, the tool is select and the
\* preview is gone.
C30_PreviewIffDrawing ==
  /\ [] ((drawingPreview # <<>>) <=> (actionState.type = "drawing"))
  /\ [][ (actionState.type = "drawing" /\ actionState'.type # "drawing") =>
            (mode' = "select" /\ drawingPreview' = <<>>) ]_vars

\* a draw gesture that had a preview has ended without a room, after the pointer
\* moved
C30_Witness ==
  /\ gest.phase = "done" /\ DrawGesture /\ gest.moves >= 1
  /\ history = gest.hist0 /\ index = gest.index0
  /\ mode = "select"
  /\ drawingPreview = <<>>
====
